---- MODULE Spec2Model ----
(***************************************************************************)
(* Model of the WebSocket -> PostgreSQL benchmark server (server.go) and   *)
(* its load generator (client/client.go).                                  *)
(*                                                                         *)
(* Processes:                                                              *)
(*   - one connection handler per client (the closure given to            *)
(*     websocket.New in runNaive / runBuffered / runBulk);                 *)
(*   - workerCount workers (the goroutines of runBuffered, or             *)
(*     bulkInsertWorker in bulk mode);                                     *)
(*   - one time.Ticker per bulk worker.                                    *)
(* A process step is one access to shared state (conn, ch, db,            *)
(* insertedCount, ticker.C) together with the local code that follows it.  *)
(***************************************************************************)
EXTENDS Integers, Sequences, FiniteSets, TLC

\* ---------------------------------------------------------------------
\* Bounds of the model (the program's values are far larger)
\* ---------------------------------------------------------------------
MaxClients == 2
MaxMessagesPerClient == 3
MaxTotalMessages == 3
MaxWorkers == 2
MaxBatchSize == 2
MaxChannelBuffer == 2

Modes == {"naive", "buffered", "bulk"}

NoMsg == <<>>

VARIABLES
    mode,               \* -mode flag
    clientCount,        \* number of clients / connections
    messagesPerClient,  \* messages each client sends
    workerCount,        \* number of workers started
    batchSize,          \* size threshold of a bulk batch
    channelBufferSize,  \* capacity of ch
    sent,               \* sent[c]: messages handler c has read from its connection
    hpc,                \* hpc[c]: position of connection handler c
    hmsg,               \* hmsg[c]: msg held by handler c
    herr,               \* herr[c]: err of handler c's db.Exec (naive)
    ch,                 \* the intake channel
    enqueued,           \* every message sent on ch so far, in send order
    insertedCount,      \* the shared counter
    wpc,                \* wpc[w]: position of worker w
    wmsg,               \* wmsg[w]: msg of a buffered worker
    werr,               \* werr[w]: err of worker w's db.Exec
    batch,              \* batch[w]: batch of bulk worker w
    trigger,            \* trigger[w]: call site of the running flush()
    tickerC,            \* tickerC[w]: a tick is waiting in ticker.C
    writes,             \* statements executed by db.Exec, in order
    errLogs,            \* number of "... error" log lines
    doneLogs            \* number of "... mode done!" log lines

config == <<mode, clientCount, messagesPerClient, workerCount, batchSize,
            channelBufferSize>>
hvars == <<sent, hpc, hmsg, herr>>
wvars == <<wpc, wmsg, werr, batch, trigger, tickerC>>
vars == <<config, hvars, wvars, ch, enqueued, insertedCount, writes, errLogs,
          doneLogs>>

Clients == 1..clientCount
Workers == 1..workerCount

\* totalMessages = clientCount * messagesPerClient
totalMessages == clientCount * messagesPerClient

\* fmt.Sprintf("client-%d-message-%d", id, i): the i-th message of client id
ClientMessage(id, i) == <<id, i>>

\* ---------------------------------------------------------------------
\* Pure helpers
\* ---------------------------------------------------------------------

\* buildBulkInsert: one placeholder ($i) and one argument per message
RECURSIVE buildValues(_, _)
buildValues(batchArg, i) ==
    IF i > Len(batchArg) THEN <<>>
    ELSE <<i>> \o buildValues(batchArg, i + 1)

RECURSIVE buildArgs(_, _)
buildArgs(batchArg, i) ==
    IF i > Len(batchArg) THEN <<>>
    ELSE <<batchArg[i]>> \o buildArgs(batchArg, i + 1)

\* (mutant) the placeholders are numbered from $0: i instead of i+1
buildBulkInsertFromZero(batchArg) ==
    [values |-> [i \in 1..Len(batchArg) |-> i - 1],
     args |-> buildArgs(batchArg, 1)]

\* (mutant) the arguments are bound in reverse batch order
buildBulkInsertReversed(batchArg) ==
    [values |-> buildValues(batchArg, 1),
     args |-> [i \in 1..Len(batchArg) |-> batchArg[Len(batchArg) + 1 - i]]]

buildBulkInsert(batchArg) ==
    [values |-> buildValues(batchArg, 1), args |-> buildArgs(batchArg, 1)]

\* "INSERT INTO messages (payload) VALUES ($1)", msg
singleInsert(m) == [values |-> <<1>>, args |-> <<m>>]

\* db.Exec(query, args...): the statement is recorded with its outcome
dbExec(log, by, stmt, trig) ==
    Append(log, [by |-> by, values |-> stmt.values, args |-> stmt.args,
                 trig |-> trig])

\* if err != nil { log.Println(... err) }
logError(n, failed) == IF failed THEN n + 1 ELSE n

\* (mutant) a send that never waits for room
chanCanSendAlways(q) == TRUE

\* (mutant) the capacity check is off by one
chanCanSendOneMore(q) == Len(q) <= channelBufferSize

\* ch <- msg can proceed only while the buffer has room
chanCanSend(q) == Len(q) < channelBufferSize

\* (mutant) the size check is off by one
sizeReachedLate(b) == Len(b) > batchSize

\* len(batch) >= batchSize
sizeReached(b) == Len(b) >= batchSize

\* (mutant) a failed single write is not counted
addOneOnSuccess(n, failed) == IF failed THEN n ELSE n + 1

\* atomic.AddInt64(&insertedCount, 1)
addOne(n, failed) == n + 1

\* (mutant) the counter is stored, not added to
addBatchStore(n, b, failed) == Len(b)

\* (mutant) a failed batch is not counted
addBatchOnSuccess(n, b, failed) == IF failed THEN n ELSE n + Len(b)

\* (mutant) a flush counts one statement instead of len(batch) messages
addBatchAsOne(n, b, failed) == n + 1

\* atomic.AddInt64(&insertedCount, int64(len(batch)))
addBatch(n, b, failed) == n + Len(b)

\* (mutant) the comparison is off by one
isDoneOffByOne(n) == n + 1 = totalMessages

\* atomic.LoadInt64(&insertedCount) == int64(totalMessages)
isDone(n) == n = totalMessages

\* (mutant) a failed write is executed again
afterExecRetry(failed) == IF failed THEN "exec" ELSE "add"

\* (mutant) the loop is left when db.Exec fails
afterExecReturn(failed) == IF failed THEN "returned" ELSE "add"

\* where a worker or handler continues after db.Exec returned: the error is
\* logged and the code goes on to the increment
afterExec(failed) == "add"

\* (mutant) the timer flushes full batches only
flushIsNoopPartial(b) == Len(b) < batchSize

\* (mutant) flush without the empty-batch check
flushNeverNoop(b) == FALSE

\* flush: if len(batch) == 0 { return }
flushIsNoop(b) == Len(b) = 0

\* (mutant) the batch is not cleared after the flush
resetBatchKeep(b) == b

\* batch = batch[:0]
resetBatch(b) == <<>>

\* ---------------------------------------------------------------------
\* Initial state
\* ---------------------------------------------------------------------
InitState ==
    /\ sent = [c \in Clients |-> 0]
    /\ hpc = [c \in Clients |-> "read"]
    /\ hmsg = [c \in Clients |-> NoMsg]
    /\ herr = [c \in Clients |-> FALSE]
    /\ ch = <<>>
    /\ enqueued = <<>>
    /\ insertedCount = 0
    /\ wpc = [w \in Workers |-> "select"]
    /\ wmsg = [w \in Workers |-> NoMsg]
    /\ werr = [w \in Workers |-> FALSE]
    /\ batch = [w \in Workers |-> <<>>]
    /\ trigger = [w \in Workers |-> "none"]
    /\ tickerC = [w \in Workers |-> FALSE]
    /\ writes = <<>>
    /\ errLogs = 0
    /\ doneLogs = 0

Init ==
    /\ mode \in Modes
    /\ clientCount \in 1..MaxClients
    /\ messagesPerClient \in 1..MaxMessagesPerClient
    /\ workerCount \in (IF mode = "naive" THEN {0} ELSE 1..MaxWorkers)
    /\ batchSize \in (IF mode = "bulk" THEN 1..MaxBatchSize ELSE {1})
    /\ channelBufferSize \in (IF mode = "naive" THEN {0} ELSE 1..MaxChannelBuffer)
    /\ clientCount * messagesPerClient <= MaxTotalMessages
    /\ InitState

\* ---------------------------------------------------------------------
\* Connection handlers
\* ---------------------------------------------------------------------

\* c.ReadMessage() returns the client's next message
HandlerRead(c) ==
    /\ hpc[c] = "read"
    /\ sent[c] < messagesPerClient
    /\ sent' = [sent EXCEPT ![c] = @ + 1]
    /\ hmsg' = [hmsg EXCEPT ![c] = ClientMessage(c, sent[c] + 1)]
    /\ hpc' = [hpc EXCEPT ![c] = IF mode = "naive" THEN "exec" ELSE "send"]
    /\ UNCHANGED <<config, enqueued, herr, wvars, ch, insertedCount, writes, errLogs, doneLogs>>

\* c.ReadMessage() returns an error: the client closed the connection after
\* its last message (client.go, defer conn.Close()), and the handler returns.
\* A client that stops early is a behaviour in which HandlerRead is not taken.
HandlerClose(c) ==
    /\ hpc[c] = "read"
    /\ sent[c] = messagesPerClient
    /\ hpc' = [hpc EXCEPT ![c] = "closed"]
    /\ UNCHANGED <<config, enqueued, sent, hmsg, herr, wvars, ch, insertedCount, writes, errLogs,
                   doneLogs>>

\* ch <- string(msg)
HandlerSend(c) ==
    /\ mode \in {"buffered", "bulk"}
    /\ hpc[c] = "send"
    /\ chanCanSend(ch)
    /\ ch' = Append(ch, hmsg[c])
    /\ enqueued' = Append(enqueued, hmsg[c])
    /\ hmsg' = [hmsg EXCEPT ![c] = NoMsg]
    /\ hpc' = [hpc EXCEPT ![c] = "read"]
    /\ UNCHANGED <<config, sent, herr, wvars, insertedCount, writes, errLogs, doneLogs>>

\* naive: db.Exec("INSERT ... VALUES ($1)", string(msg))
NaiveExec(c) ==
    /\ mode = "naive"
    /\ hpc[c] = "exec"
    /\ \E ok \in BOOLEAN :
        /\ writes' = dbExec(writes, c, singleInsert(hmsg[c]), "single")
        /\ herr' = [herr EXCEPT ![c] = ~ok]
        /\ errLogs' = logError(errLogs, ~ok)
        /\ hpc' = [hpc EXCEPT ![c] = afterExec(~ok)]
    /\ UNCHANGED <<config, enqueued, sent, hmsg, wvars, ch, insertedCount, doneLogs>>

\* naive: atomic.AddInt64(&insertedCount, 1)
NaiveAdd(c) ==
    /\ mode = "naive"
    /\ hpc[c] = "add"
    /\ insertedCount' = addOne(insertedCount, herr[c])
    /\ hpc' = [hpc EXCEPT ![c] = "load"]
    /\ UNCHANGED <<config, enqueued, sent, hmsg, herr, wvars, ch, writes, errLogs, doneLogs>>

\* naive: if atomic.LoadInt64(&insertedCount) == int64(totalMessages) { log }
NaiveLoad(c) ==
    /\ mode = "naive"
    /\ hpc[c] = "load"
    /\ doneLogs' = IF isDone(insertedCount) THEN doneLogs + 1 ELSE doneLogs
    /\ hmsg' = [hmsg EXCEPT ![c] = NoMsg]
    /\ herr' = [herr EXCEPT ![c] = FALSE]
    /\ hpc' = [hpc EXCEPT ![c] = "read"]
    /\ UNCHANGED <<config, enqueued, sent, wvars, ch, insertedCount, writes, errLogs>>

\* ---------------------------------------------------------------------
\* Buffered workers
\* ---------------------------------------------------------------------

\* for msg := range ch
BufferedRecv(w) ==
    /\ mode = "buffered"
    /\ wpc[w] = "select"
    /\ ch # <<>>
    /\ wmsg' = [wmsg EXCEPT ![w] = Head(ch)]
    /\ ch' = Tail(ch)
    /\ wpc' = [wpc EXCEPT ![w] = "exec"]
    /\ UNCHANGED <<config, enqueued, hvars, werr, batch, trigger, tickerC, insertedCount,
                   writes, errLogs, doneLogs>>

\* db.Exec("INSERT ... VALUES ($1)", msg)
BufferedExec(w) ==
    /\ mode = "buffered"
    /\ wpc[w] = "exec"
    /\ \E ok \in BOOLEAN :
        /\ writes' = dbExec(writes, w, singleInsert(wmsg[w]), "single")
        /\ werr' = [werr EXCEPT ![w] = ~ok]
        /\ errLogs' = logError(errLogs, ~ok)
        /\ wpc' = [wpc EXCEPT ![w] = afterExec(~ok)]
    /\ UNCHANGED <<config, enqueued, hvars, wmsg, batch, trigger, tickerC, ch,
                   insertedCount, doneLogs>>

\* atomic.AddInt64(&insertedCount, 1)
BufferedAdd(w) ==
    /\ mode = "buffered"
    /\ wpc[w] = "add"
    /\ insertedCount' = addOne(insertedCount, werr[w])
    /\ wpc' = [wpc EXCEPT ![w] = "load"]
    /\ UNCHANGED <<config, enqueued, hvars, wmsg, werr, batch, trigger, tickerC, ch,
                   writes, errLogs, doneLogs>>

\* if atomic.LoadInt64(&insertedCount) == int64(totalMessages) { log }
BufferedLoad(w) ==
    /\ mode = "buffered"
    /\ wpc[w] = "load"
    /\ doneLogs' = IF isDone(insertedCount) THEN doneLogs + 1 ELSE doneLogs
    /\ wmsg' = [wmsg EXCEPT ![w] = NoMsg]
    /\ werr' = [werr EXCEPT ![w] = FALSE]
    /\ wpc' = [wpc EXCEPT ![w] = "select"]
    /\ UNCHANGED <<config, enqueued, hvars, batch, trigger, tickerC, ch, insertedCount,
                   writes, errLogs>>

\* ---------------------------------------------------------------------
\* Bulk workers
\* ---------------------------------------------------------------------

\* the runtime delivers a tick to ticker.C (buffer of one; a tick that
\* finds the buffer full is dropped)
TickerFire(w) ==
    /\ mode = "bulk"
    /\ w \in Workers
    /\ ~tickerC[w]
    /\ tickerC' = [tickerC EXCEPT ![w] = TRUE]
    /\ UNCHANGED <<config, enqueued, hvars, wpc, wmsg, werr, batch, trigger, ch,
                   insertedCount, writes, errLogs, doneLogs>>

\* case msg := <-ch: append, and flush() when the size is reached
BulkRecv(w) ==
    /\ mode = "bulk"
    /\ wpc[w] = "select"
    /\ ch # <<>>
    /\ LET b == Append(batch[w], Head(ch)) IN
        /\ batch' = [batch EXCEPT ![w] = b]
        /\ IF sizeReached(b)
           THEN /\ wpc' = [wpc EXCEPT ![w] = "exec"]
                /\ trigger' = [trigger EXCEPT ![w] = "size"]
           ELSE UNCHANGED <<wpc, trigger>>
    /\ ch' = Tail(ch)
    /\ UNCHANGED <<config, enqueued, hvars, wmsg, werr, tickerC, insertedCount, writes, errLogs,
                   doneLogs>>

\* case <-ticker.C: flush(), which returns at once on an empty batch
BulkTick(w) ==
    /\ mode = "bulk"
    /\ wpc[w] = "select"
    /\ tickerC[w]
    /\ tickerC' = [tickerC EXCEPT ![w] = FALSE]
    /\ IF flushIsNoop(batch[w])
       THEN UNCHANGED <<wpc, trigger>>
       ELSE /\ wpc' = [wpc EXCEPT ![w] = "exec"]
            /\ trigger' = [trigger EXCEPT ![w] = "timer"]
    /\ UNCHANGED <<config, enqueued, hvars, wmsg, werr, batch, ch, insertedCount, writes, errLogs,
                   doneLogs>>

\* flush: query, args := buildBulkInsert(batch); db.Exec(query, args...)
BulkExec(w) ==
    /\ mode = "bulk"
    /\ wpc[w] = "exec"
    /\ \E ok \in BOOLEAN :
        /\ writes' = dbExec(writes, w, buildBulkInsert(batch[w]), trigger[w])
        /\ werr' = [werr EXCEPT ![w] = ~ok]
        /\ errLogs' = logError(errLogs, ~ok)
        /\ wpc' = [wpc EXCEPT ![w] = afterExec(~ok)]
    /\ UNCHANGED <<config, enqueued, hvars, wmsg, batch, trigger, tickerC, ch,
                   insertedCount, doneLogs>>

\* flush: atomic.AddInt64(&insertedCount, int64(len(batch)))
BulkAdd(w) ==
    /\ mode = "bulk"
    /\ wpc[w] = "add"
    /\ insertedCount' = addBatch(insertedCount, batch[w], werr[w])
    /\ wpc' = [wpc EXCEPT ![w] = "load"]
    /\ UNCHANGED <<config, enqueued, hvars, wmsg, werr, batch, trigger, tickerC, ch,
                   writes, errLogs, doneLogs>>

\* flush: if atomic.LoadInt64(&insertedCount) == int64(totalMessages) { log };
\* batch = batch[:0]
BulkLoad(w) ==
    /\ mode = "bulk"
    /\ wpc[w] = "load"
    /\ doneLogs' = IF isDone(insertedCount) THEN doneLogs + 1 ELSE doneLogs
    /\ batch' = [batch EXCEPT ![w] = resetBatch(@)]
    /\ werr' = [werr EXCEPT ![w] = FALSE]
    /\ trigger' = [trigger EXCEPT ![w] = "none"]
    /\ wpc' = [wpc EXCEPT ![w] = "select"]
    /\ UNCHANGED <<config, enqueued, hvars, wmsg, tickerC, ch, insertedCount, writes, errLogs>>

\* ---------------------------------------------------------------------
\* Specifications
\* ---------------------------------------------------------------------
Next ==
    \/ \E c \in Clients : HandlerRead(c)
    \/ \E c \in Clients : HandlerClose(c)
    \/ \E c \in Clients : HandlerSend(c)
    \/ \E c \in Clients : NaiveExec(c)
    \/ \E c \in Clients : NaiveAdd(c)
    \/ \E c \in Clients : NaiveLoad(c)
    \/ \E w \in Workers : BufferedRecv(w)
    \/ \E w \in Workers : BufferedExec(w)
    \/ \E w \in Workers : BufferedAdd(w)
    \/ \E w \in Workers : BufferedLoad(w)
    \/ \E w \in Workers : TickerFire(w)
    \/ \E w \in Workers : BulkRecv(w)
    \/ \E w \in Workers : BulkTick(w)
    \/ \E w \in Workers : BulkExec(w)
    \/ \E w \in Workers : BulkAdd(w)
    \/ \E w \in Workers : BulkLoad(w)

Spec == Init /\ [][Next]_vars

\* Bulk mode alone: the handlers of runBulk and the bulk workers
NextBulk ==
    \/ \E c \in Clients : HandlerRead(c)
    \/ \E c \in Clients : HandlerClose(c)
    \/ \E c \in Clients : HandlerSend(c)
    \/ \E w \in Workers : TickerFire(w)
    \/ \E w \in Workers : BulkRecv(w)
    \/ \E w \in Workers : BulkTick(w)
    \/ \E w \in Workers : BulkExec(w)
    \/ \E w \in Workers : BulkAdd(w)
    \/ \E w \in Workers : BulkLoad(w)

\* Scenario B: bulk mode, batchSize 3; the one client has sent M1..M7 and
\* its handler has enqueued them all, in that order, before any worker ran
\* and before any tick.
InitB ==
    /\ mode = "bulk"
    /\ clientCount = 1
    /\ messagesPerClient = 7
    /\ workerCount \in 1..MaxWorkers
    /\ batchSize = 3
    /\ channelBufferSize = 7
    /\ sent = [c \in Clients |-> messagesPerClient]
    /\ hpc = [c \in Clients |-> "read"]
    /\ hmsg = [c \in Clients |-> NoMsg]
    /\ herr = [c \in Clients |-> FALSE]
    /\ ch = [i \in 1..messagesPerClient |-> ClientMessage(1, i)]
    /\ enqueued = ch
    /\ insertedCount = 0
    /\ wpc = [w \in Workers |-> "select"]
    /\ wmsg = [w \in Workers |-> NoMsg]
    /\ werr = [w \in Workers |-> FALSE]
    /\ batch = [w \in Workers |-> <<>>]
    /\ trigger = [w \in Workers |-> "none"]
    /\ tickerC = [w \in Workers |-> FALSE]
    /\ writes = <<>>
    /\ errLogs = 0
    /\ doneLogs = 0

\* the scenario induces no write failure: db.Exec returns a nil error
BulkExecOk(w) == BulkExec(w) /\ ~werr'[w]

\* the handler stays in ReadMessage; only the tickers and the workers move
NextB ==
    \/ \E w \in Workers : TickerFire(w)
    \/ \E w \in Workers : BulkRecv(w)
    \/ \E w \in Workers : BulkTick(w)
    \/ \E w \in Workers : BulkExecOk(w)
    \/ \E w \in Workers : BulkAdd(w)
    \/ \E w \in Workers : BulkLoad(w)

SpecB == InitB /\ [][NextB]_vars

\* Scenario C: bulk mode, batchSize 5, one client sending one message
InitC ==
    /\ mode = "bulk"
    /\ clientCount = 1
    /\ messagesPerClient = 1
    /\ workerCount \in 1..MaxWorkers
    /\ batchSize = 5
    /\ channelBufferSize \in 1..MaxChannelBuffer
    /\ InitState

SpecC == InitC /\ [][NextBulk]_vars

\* Scheduling: the Go scheduler runs every runnable goroutine, so each
\* handler or worker step that stays possible is eventually taken, and a
\* time.Ticker keeps ticking.  Nothing forces a client to send: HandlerRead
\* and HandlerClose carry no fairness.
Fairness ==
    /\ \A c \in 1..MaxClients :
        /\ WF_vars(c \in Clients /\ HandlerSend(c))
        /\ WF_vars(c \in Clients /\ NaiveExec(c))
        /\ WF_vars(c \in Clients /\ NaiveAdd(c))
        /\ WF_vars(c \in Clients /\ NaiveLoad(c))
    /\ \A w \in 1..MaxWorkers :
        /\ WF_vars(w \in Workers /\ BufferedRecv(w))
        /\ WF_vars(w \in Workers /\ BufferedExec(w))
        /\ WF_vars(w \in Workers /\ BufferedAdd(w))
        /\ WF_vars(w \in Workers /\ BufferedLoad(w))
        /\ WF_vars(w \in Workers /\ TickerFire(w))
        /\ WF_vars(w \in Workers /\ BulkRecv(w))
        /\ WF_vars(w \in Workers /\ BulkTick(w))
        /\ WF_vars(w \in Workers /\ BulkExec(w))
        /\ WF_vars(w \in Workers /\ BulkAdd(w))
        /\ WF_vars(w \in Workers /\ BulkLoad(w))

FairSpec == Spec /\ Fairness

FairSpecC == SpecC /\ Fairness

\* ---------------------------------------------------------------------
\* Derived quantities used by the properties
\* ---------------------------------------------------------------------
RECURSIVE SumSent(_)
SumSent(n) == IF n = 0 THEN 0 ELSE sent[n] + SumSent(n - 1)

\* messages read from the connections so far
nRead == SumSent(clientCount)

RECURSIVE ParamSum(_)
ParamSum(log) == IF log = <<>> THEN 0 ELSE Len(Head(log).args) + ParamSum(Tail(log))

\* sum of the parameter counts of all executed statements
ParamCount == ParamSum(writes)

InSeq(m, q) == \E i \in 1..Len(q) : q[i] = m

\* the statements that carry message m
WritesOf(m) == {i \in 1..Len(writes) : InSeq(m, writes[i].args)}

Written(m) == WritesOf(m) # {}

\* nothing is in progress: every handler waits in ReadMessage (or returned),
\* every worker waits in its receive with nothing buffered
Idle ==
    /\ \A c \in Clients : hpc[c] \in {"read", "closed"}
    /\ ch = <<>>
    /\ \A w \in Workers : wpc[w] = "select" /\ batch[w] = <<>>

\* ---------------------------------------------------------------------
\* Properties
\* ---------------------------------------------------------------------

\* C1: in a run that processed exactly totalMessages messages, the
\* "... mode done!" line has been logged exactly once, whatever the number
\* of workers and the interleaving of their add and load steps.
C1_CompletionExactlyOnce ==
    (Idle /\ insertedCount = totalMessages) => doneLogs = 1

\* C2: in every mode, if no write fails, insertedCount eventually equals the
\* number of messages delivered and stays there, and so does the sum of the
\* parameter counts of the executed statements.
C2_NoMessageLoss ==
    ([](errLogs = 0)) => <>[](insertedCount = nRead /\ ParamCount = nRead)

C2_Witness ==
    /\ mode = "bulk"
    /\ errLogs = 0
    /\ Idle
    /\ nRead = totalMessages
    /\ insertedCount = nRead
    /\ ParamCount = nRead
    /\ \E i \in 1..Len(writes) : writes[i].trig = "size"
    /\ \E i \in 1..Len(writes) : writes[i].trig = "timer"

\* C3: a flush started by the size check after an append never carries more
\* than batchSize messages, neither while it runs nor in its statement.
C3_SizeFlushBounded ==
    /\ \A w \in Workers :
        trigger[w] = "size" => Len(batch[w]) <= batchSize
    /\ \A i \in 1..Len(writes) :
        writes[i].trig = "size" => Len(writes[i].args) <= batchSize

C3_Witness ==
    /\ batchSize >= 2
    /\ \E i \in 1..Len(writes) :
        writes[i].trig = "size" /\ Len(writes[i].args) = batchSize

\* C4: a bulk worker that takes a tick while its batch holds k messages,
\* 1 <= k < batchSize, starts a flush at that tick; the flush executes one
\* statement whose arguments are exactly those k messages; and a non-empty
\* batch is always flushed eventually.
C4_TickStartsFlush ==
    \A w \in Workers :
        (/\ tickerC[w] /\ ~tickerC'[w]
         /\ 1 <= Len(batch[w]) /\ Len(batch[w]) < batchSize)
        => (wpc'[w] = "exec" /\ trigger'[w] = "timer" /\ batch'[w] = batch[w])

C4_TimerFlushWritesBatch ==
    \A w \in Workers :
        (wpc[w] = "exec" /\ wpc'[w] # "exec" /\ trigger[w] = "timer")
        => /\ Len(writes') = Len(writes) + 1
           /\ writes'[Len(writes')].args = batch[w]
           /\ writes'[Len(writes')].by = w
           /\ writes'[Len(writes')].trig = "timer"

C4_TimerFlushOfPartialBatch ==
    /\ [][C4_TickStartsFlush /\ C4_TimerFlushWritesBatch]_vars
    /\ \A w \in 1..MaxWorkers :
        (mode = "bulk" /\ w \in Workers /\ Len(batch[w]) >= 1)
            ~> (w \in Workers /\ Len(batch[w]) = 0)

C4_Witness ==
    \E i \in 1..Len(writes) :
        /\ writes[i].trig = "timer"
        /\ 1 <= Len(writes[i].args)
        /\ Len(writes[i].args) < batchSize

\* message m is held somewhere in the pipeline or was written
Accounted(m) ==
    \/ \E c \in Clients : hmsg[c] = m
    \/ InSeq(m, ch)
    \/ \E w \in Workers : wmsg[w] = m \/ InSeq(m, batch[w])
    \/ Written(m)

\* C5: in buffered and bulk mode the channel never holds more than
\* channelBufferSize messages; a handler whose send finds it full stays in
\* the send with its message while the channel only shrinks by receives;
\* when the send completes the message is at the tail of the channel; the
\* send completes eventually; and no message read is ever lost.
C5_BlockedStaysBlocked ==
    \A c \in Clients :
        (hpc[c] = "send" /\ Len(ch) = channelBufferSize)
        => /\ hpc'[c] = "send"
           /\ hmsg'[c] = hmsg[c]
           /\ ch' = ch \/ ch' = Tail(ch)

C5_SendEnqueues ==
    \A c \in Clients :
        (hpc[c] = "send" /\ hpc'[c] # "send") => ch' = Append(ch, hmsg[c])

C5_NothingDropped ==
    mode \in {"buffered", "bulk"} =>
        /\ Len(ch) <= channelBufferSize
        /\ \A c \in Clients : \A i \in 1..sent[c] :
            Accounted(ClientMessage(c, i))

C5_SendBlocksWhenFull ==
    /\ []C5_NothingDropped
    /\ [][C5_BlockedStaysBlocked /\ C5_SendEnqueues]_vars
    /\ \A c \in 1..MaxClients :
        (c \in Clients /\ hpc[c] = "send")
            ~> (c \in Clients /\ hpc[c] = "read")

C5_Witness ==
    /\ mode \in {"buffered", "bulk"}
    /\ Len(ch) = channelBufferSize
    /\ \E c \in Clients : hpc[c] = "send"

\* C6: every increment adds 1 (naive, buffered) or len(batch) (bulk)
\* whether the write before it failed or not, and every write is followed
\* by its increment; so a completion signal shows that totalMessages
\* messages were attempted.
C6_AddIgnoresError ==
    /\ \A c \in Clients :
        /\ (hpc[c] = "exec" /\ hpc'[c] # "exec") => hpc'[c] = "add"
        /\ (hpc[c] = "add" /\ hpc'[c] # "add")
            => insertedCount' = insertedCount + 1
    /\ \A w \in Workers :
        /\ (wpc[w] = "exec" /\ wpc'[w] # "exec") => wpc'[w] = "add"
        /\ (wpc[w] = "add" /\ wpc'[w] # "add")
            => insertedCount' = insertedCount +
                    (IF mode = "bulk" THEN Len(batch[w]) ELSE 1)

C6_FailedWritesCounted ==
    /\ [][C6_AddIgnoresError]_vars
    /\ [](doneLogs >= 1 =>
            (ParamCount >= totalMessages /\ insertedCount = totalMessages))

C6_Witness ==
    /\ mode = "bulk"
    /\ batchSize >= 2
    /\ doneLogs >= 1
    /\ errLogs >= 1
    /\ errLogs = Len(writes)

\* C7: no worker or handler ever leaves its loop; a worker whose write
\* failed is back at its receive later on; and from some point on every
\* message read from a connection is in an executed statement, whatever
\* writes fail.
C7_InLoop ==
    /\ \A c \in Clients : hpc[c] \in {"read", "send", "exec", "add", "load", "closed"}
    /\ \A w \in Workers : wpc[w] \in {"select", "exec", "add", "load"}

C7_AllAttempted ==
    \A c \in Clients : \A i \in 1..sent[c] : Written(ClientMessage(c, i))

C7_FailureDoesNotStopWorker ==
    /\ []C7_InLoop
    /\ \A w \in 1..MaxWorkers :
        (w \in Workers /\ werr[w])
            ~> (w \in Workers /\ wpc[w] = "select" /\ ~werr[w])
    /\ <>[]C7_AllAttempted

C7_Witness ==
    /\ mode \in {"buffered", "bulk"}
    /\ workerCount = 1
    /\ Len(writes) >= 2
    /\ errLogs = Len(writes)
    /\ Idle

\* the argument lists and the triggers of the executed statements, in order
StatementArgs == [i \in 1..Len(writes) |-> writes[i].args]
StatementTrigs == [i \in 1..Len(writes) |-> writes[i].trig]

M(i) == ClientMessage(1, i)

ExpectedB == << <<M(1), M(2), M(3)>>, <<M(4), M(5), M(6)>>, <<M(7)>> >>

OneReceiver == \A i, j \in 1..Len(writes) : writes[i].by = writes[j].by

\* C8 (as stated): in scenario B, started with workerCount workers, once all
\* seven messages are processed the executed statements are exactly
\* [M1,M2,M3], [M4,M5,M6], [M7].
C8_ThreeStatements ==
    (Idle /\ insertedCount = totalMessages) => StatementArgs = ExpectedB

\* every statement but the last was started by the size check
NoEarlyTimerFlush == \A i \in 1..(Len(writes) - 1) : writes[i].trig = "size"

\* C8 (amended): in scenario B, when one worker receives all seven messages
\* and none of its flushes before the last is started by the timer, the
\* executed statements are exactly [M1,M2,M3], [M4,M5,M6] by the size check
\* and then [M7] by the timer, with 3, 3 and 1 parameters.
C8_OneReceiverThreeStatements ==
    (Idle /\ insertedCount = totalMessages /\ OneReceiver /\ NoEarlyTimerFlush) =>
        /\ StatementArgs = ExpectedB
        /\ StatementTrigs = <<"size", "size", "timer">>
        /\ \A i \in 1..Len(writes) : Len(writes[i].values) = Len(writes[i].args)

C8_Witness ==
    /\ workerCount >= 2
    /\ Idle
    /\ insertedCount = totalMessages
    /\ OneReceiver
    /\ NoEarlyTimerFlush
    /\ Len(writes) = 3

\* C9: in naive mode every statement has one placeholder and one argument;
\* every message a handler has read is in exactly one statement, executed by
\* that handler, except the message it is about to write; hence a handler
\* reads its next message only after the previous one was written; and when
\* the handlers are between messages insertedCount is the number read.
C9_NaiveOneWritePerMessage ==
    mode = "naive" =>
        /\ \A k \in 1..Len(writes) :
            writes[k].values = <<1>> /\ Len(writes[k].args) = 1
        /\ \A c \in Clients : \A i \in 1..sent[c] :
            IF i = sent[c] /\ hpc[c] = "exec"
            THEN WritesOf(ClientMessage(c, i)) = {}
            ELSE /\ Cardinality(WritesOf(ClientMessage(c, i))) = 1
                 /\ \A k \in WritesOf(ClientMessage(c, i)) :
                        /\ writes[k].by = c
                        /\ writes[k].args = <<ClientMessage(c, i)>>
        /\ (\A c \in Clients : hpc[c] \in {"read", "closed"})
            => (insertedCount = nRead /\ Len(writes) = nRead)

C9_Witness ==
    /\ mode = "naive"
    /\ \E c \in Clients :
        sent[c] >= 2 /\ sent[c] = messagesPerClient /\ hpc[c] = "closed"
    /\ insertedCount = nRead
    /\ Len(writes) = nRead

\* C10: in scenario C at most one statement is ever executed, it carries
\* the single message and is started by the timer, and once the message is
\* read from the connection that statement is eventually executed.
C10_AtMostOneTimerFlush ==
    /\ Len(writes) <= 1
    /\ \A i \in 1..Len(writes) :
        /\ writes[i].args = <<M(1)>>
        /\ writes[i].trig = "timer"

C10_SingleMessageTimerFlush ==
    /\ []C10_AtMostOneTimerFlush
    /\ (sent[1] = 1) ~> (Len(writes) = 1)

C10_Witness ==
    /\ Len(writes) = 1
    /\ Idle
    /\ insertedCount = 1
    /\ \E w \in Workers : writes[1].by = w /\ tickerC[w]

\* C11: a bulk worker waiting in its select holds fewer than batchSize
\* messages; the append that brings the batch to batchSize starts the flush
\* in the same step; and the flush leaves an empty batch behind, so the
\* next tick the worker takes finds nothing to flush.
C11_AccumulatingBelowSize ==
    mode = "bulk" =>
        \A w \in Workers :
            wpc[w] = "select" => (0 <= Len(batch[w]) /\ Len(batch[w]) < batchSize)

C11_FullAppendFlushes ==
    \A w \in Workers :
        /\ (mode = "bulk" /\ Len(batch'[w]) > Len(batch[w])
                /\ Len(batch'[w]) >= batchSize)
            => (wpc'[w] = "exec" /\ trigger'[w] = "size")
        /\ (mode = "bulk" /\ wpc[w] = "load" /\ wpc'[w] # "load")
            => (wpc'[w] = "select" /\ batch'[w] = <<>>)

C11_SelectLoopBatchBelowSize ==
    /\ []C11_AccumulatingBelowSize
    /\ [][C11_FullAppendFlushes]_vars

C11_Witness ==
    /\ mode = "bulk"
    /\ batchSize >= 2
    /\ \E w \in Workers :
        /\ wpc[w] = "select"
        /\ batch[w] = <<>>
        /\ tickerC[w]
        /\ Len(writes) >= 1
        /\ writes[Len(writes)].by = w
        /\ writes[Len(writes)].trig = "size"

\* C12: the step that ends a flush leaves the worker's batch empty whether
\* db.Exec failed or not, and puts nothing back on the channel; a message
\* that is in an executed statement is in no batch of a waiting worker and
\* not in the channel.
C12_FlushEndClearsBatch ==
    \A w \in Workers :
        (mode = "bulk" /\ wpc[w] = "load" /\ wpc'[w] # "load")
        => (batch'[w] = <<>> /\ ch' = ch /\ enqueued' = enqueued)

C12_WrittenNotKept ==
    mode = "bulk" =>
        \A i \in 1..Len(writes) : \A k \in 1..Len(writes[i].args) :
            /\ ~InSeq(writes[i].args[k], ch)
            /\ \A w \in Workers :
                wpc[w] = "select" => ~InSeq(writes[i].args[k], batch[w])

C12_BatchResetAfterFlush ==
    /\ [][C12_FlushEndClearsBatch]_vars
    /\ []C12_WrittenNotKept

C12_Witness ==
    /\ mode = "bulk"
    /\ errLogs >= 1
    /\ errLogs = Len(writes)
    /\ ch = <<>>
    /\ \A w \in Workers : wpc[w] = "select" /\ batch[w] = <<>>

\* C13: a bulk worker that takes a tick with an empty batch executes no
\* statement, leaves insertedCount and the log alone, makes no completion
\* check and stays in its select with an empty batch.
C13_EmptyTick ==
    \A w \in Workers :
        (mode = "bulk" /\ tickerC[w] /\ ~tickerC'[w] /\ Len(batch[w]) = 0)
        => /\ writes' = writes
           /\ insertedCount' = insertedCount
           /\ doneLogs' = doneLogs
           /\ errLogs' = errLogs
           /\ wpc'[w] = "select"
           /\ batch'[w] = <<>>

C13_EmptyFlushIsNoop == [][C13_EmptyTick]_vars

C13_Witness ==
    /\ mode = "bulk"
    /\ insertedCount = totalMessages
    /\ doneLogs >= 1
    /\ \E w \in Workers :
        wpc[w] = "select" /\ batch[w] = <<>> /\ tickerC[w]

\* C14: in bulk mode the step that executes a flush adds exactly one
\* statement, whose arguments are the messages of the batch in order and
\* whose placeholders are $1..$L; no other step adds a statement; and the
\* increment that follows adds exactly L = len(batch) >= 1.
C14_FlushStep ==
    mode = "bulk" =>
        /\ \A w \in Workers :
            /\ (wpc[w] = "exec" /\ wpc'[w] # "exec")
                => /\ Len(batch[w]) >= 1
                   /\ Len(writes') = Len(writes) + 1
                   /\ writes'[Len(writes')].args = batch[w]
                   /\ writes'[Len(writes')].values = [i \in 1..Len(batch[w]) |-> i]
                   /\ \A i \in 1..Len(writes) : writes'[i] = writes[i]
            /\ (wpc[w] = "add" /\ wpc'[w] # "add")
                => insertedCount' = insertedCount + Len(batch[w])
        /\ writes' # writes
            => \E w \in Workers : wpc[w] = "exec" /\ wpc'[w] = "add"

C14_OneStatementPerFlush == [][C14_FlushStep]_vars

C14_Witness ==
    /\ mode = "bulk"
    /\ \E w \in Workers :
        /\ wpc[w] = "load"
        /\ Len(batch[w]) >= 2
        /\ insertedCount >= Len(batch[w])
        /\ writes[Len(writes)].args = batch[w]
        /\ writes[Len(writes)].values = <<1, 2>>

RECURSIVE IsSubseq(_, _)
IsSubseq(p, q) ==
    IF p = <<>> THEN TRUE
    ELSE IF q = <<>> THEN FALSE
    ELSE IF Head(p) = Head(q) THEN IsSubseq(Tail(p), Tail(q))
    ELSE IsSubseq(p, Tail(q))

IsPrefixOf(p, q) == Len(p) <= Len(q) /\ \A i \in 1..Len(p) : p[i] = q[i]

\* the messages written by worker w, in write order and parameter order
RECURSIVE ArgsBy(_, _)
ArgsBy(log, w) ==
    IF log = <<>> THEN <<>>
    ELSE (IF Head(log).by = w THEN Head(log).args ELSE <<>>) \o ArgsBy(Tail(log), w)

\* C15: in buffered and bulk mode the messages a worker has written, in
\* write order and parameter order, are a subsequence of the messages in the
\* order they were sent on the channel; with one worker they are a prefix of
\* that order, and the whole of it once nothing is in progress.
C15_WriteOrderFollowsEnqueueOrder ==
    mode \in {"buffered", "bulk"} =>
        /\ \A w \in Workers : IsSubseq(ArgsBy(writes, w), enqueued)
        /\ workerCount = 1 => IsPrefixOf(ArgsBy(writes, 1), enqueued)
        /\ (workerCount = 1 /\ Idle) => ArgsBy(writes, 1) = enqueued

C15_Witness ==
    /\ mode = "bulk"
    /\ Idle
    /\ \E w, v \in Workers :
        /\ w # v
        /\ Len(ArgsBy(writes, w)) >= 2
        /\ Len(ArgsBy(writes, v)) >= 1
        /\ ~IsPrefixOf(ArgsBy(writes, w), enqueued)

Occ(m, q) == Cardinality({i \in 1..Len(q) : q[i] = m})

RECURSIVE OccInWrites(_, _)
OccInWrites(m, log) ==
    IF log = <<>> THEN 0 ELSE Occ(m, Head(log).args) + OccInWrites(m, Tail(log))

\* the workers that hold m, and the workers that hold or wrote m
HeldBy(m) == {w \in Workers : wmsg[w] = m \/ InSeq(m, batch[w])}
Receivers(m) == HeldBy(m) \cup {writes[i].by : i \in WritesOf(m)}

\* C16: in buffered and bulk mode a message is sent on the channel at most
\* once; once it has left the channel exactly one worker has it; it is in at
\* most one statement, once; and after its statement was executed, failed or
\* not, it is held only by the worker finishing that statement, never in the
\* channel and never again ahead of a db.Exec.
C16_OneMessage(m) ==
    /\ Occ(m, enqueued) <= 1
    /\ Occ(m, ch) + Cardinality(HeldBy(m)) <= 1
    /\ \A w \in Workers : Occ(m, batch[w]) <= 1
    /\ (InSeq(m, enqueued) /\ ~InSeq(m, ch)) => Cardinality(Receivers(m)) = 1
    /\ OccInWrites(m, writes) <= 1
    /\ Written(m) =>
        /\ ~InSeq(m, ch)
        /\ \A w \in HeldBy(m) : wpc[w] \in {"add", "load"}

C16_AtMostOneStatement ==
    mode \in {"buffered", "bulk"} =>
        \A c \in Clients : \A i \in 1..sent[c] : C16_OneMessage(ClientMessage(c, i))

C16_Witness ==
    /\ mode \in {"buffered", "bulk"}
    /\ Idle
    /\ nRead = totalMessages
    /\ Len(enqueued) = totalMessages
    /\ errLogs >= 1
    /\ \E i, j \in 1..Len(writes) : writes[i].by # writes[j].by

\* C17: every step leaves insertedCount unchanged or is the increment of one
\* handler or worker, which adds 1 (naive, buffered) or len(batch) >= 1
\* (bulk); no step lowers or resets it.
C17_CountStep ==
    /\ insertedCount' >= insertedCount
    /\ \/ insertedCount' = insertedCount
       \/ \E c \in Clients :
            /\ hpc[c] = "add" /\ hpc'[c] = "load"
            /\ insertedCount' = insertedCount + 1
       \/ \E w \in Workers :
            /\ wpc[w] = "add" /\ wpc'[w] = "load"
            /\ IF mode = "bulk"
               THEN /\ Len(batch[w]) >= 1
                    /\ insertedCount' = insertedCount + Len(batch[w])
               ELSE insertedCount' = insertedCount + 1

C17_CountMonotonic == [][C17_CountStep]_vars

C17_Witness ==
    /\ mode = "bulk"
    /\ \E w \in Workers :
        /\ wpc[w] = "load"
        /\ Len(batch[w]) >= 2
        /\ insertedCount > Len(batch[w])

RECURSIVE SumBatch(_)
SumBatch(n) == IF n = 0 THEN 0 ELSE Len(batch[n]) + SumBatch(n - 1)

\* messages held in the channel and in the workers' batches
Pending == Len(ch) + SumBatch(workerCount)

\* C18: in bulk mode the channel holds at most channelBufferSize messages,
\* every batch at most batchSize, and together at most
\* channelBufferSize + workerCount * batchSize.
C18_PendingBounded ==
    mode = "bulk" =>
        /\ Len(ch) <= channelBufferSize
        /\ \A w \in Workers : Len(batch[w]) <= batchSize
        /\ Pending <= channelBufferSize + workerCount * batchSize

C18_Witness ==
    /\ mode = "bulk"
    /\ batchSize >= 2
    /\ Pending = channelBufferSize + workerCount * batchSize

\* C19: insertedCount never exceeds the number of messages whose db.Exec
\* has returned, and once a completion line is logged at least
\* totalMessages messages have been in an executed statement.
C19_NoPrematureCompletion ==
    /\ insertedCount <= ParamCount
    /\ doneLogs >= 1 => ParamCount >= totalMessages

C19_Witness ==
    /\ mode = "buffered"
    /\ workerCount >= 2
    /\ totalMessages >= 2
    /\ doneLogs = 1
    /\ ParamCount = totalMessages
    /\ Idle

\* C20: in every mode, once all totalMessages messages have been read from
\* the connections, a completion line is eventually logged, for every
\* interleaving of the increments and loads and every split into batches.
C20_CompletionNotMissed ==
    (nRead = totalMessages) ~> (doneLogs >= 1)

C20_Witness ==
    /\ mode = "bulk"
    /\ nRead = totalMessages
    /\ doneLogs >= 1
    /\ \E i, j \in 1..Len(writes) :
        /\ writes[i].by # writes[j].by
        /\ Len(writes[i].args) >= 2

====
